---- MODULE Spec2Model ----
(***************************************************************************)
(* Model of tracker.py: the LED detector (__detect_LED, __compute_center), *)
(* the ROI cropper, the message preparation of MessageSender and the frame *)
(* loop of LEDTracker.track.                                               *)
(*                                                                         *)
(* Images are records [w, h, v]: v maps a pixel <<x, y>> (column, row,     *)
(* both from 0) to its value, a BGR triple for a frame, an intensity for a *)
(* plane.  Floats are exact fractions <<numerator, denominator>>.          *)
(***************************************************************************)
EXTENDS Integers, Sequences, FiniteSets, TLC

VARIABLES
    \* configuration, fixed by the constructors
    thresholds,        \* LEDTracker.__thresholds: dict, as a sequence of [k, v]
    roi,               \* LEDTracker.__roi: None or <<T, L, B, R>>
    pixel_coords,      \* MessageSender.__pixel_coords
    clients,           \* keys of MessageSender.__clients
    camera,            \* LEDTracker.__camera: "opened", "closed" or "released"
    frame_size,        \* LEDTracker.__frame_size: <<width, height>>
    \* LEDTracker.track
    pc,                \* position in track
    trajectories,      \* dict channel -> list of positions
    positions,         \* dict channel -> latest position
    read_successfuly,  \* result of the last camera read
    frame,             \* frame of the last camera read
    cropped_frame,     \* the frame after __crop_frame
    idx,               \* index of the channel the detection loop is at
    nread,             \* camera reads that returned a frame
    events,            \* appends and sends of the current frame, in order
    result,            \* the value track returned
    \* the detector run on its own
    scene,             \* the rectangles painted on the plane
    input,             \* intensity plane given to __detect_LED
    thr,               \* threshold given to __detect_LED
    out,               \* position __detect_LED returned
    dpc                \* "call" before the detector ran, "done" after

vars == <<thresholds, roi, pixel_coords, clients, camera, frame_size, pc,
          trajectories, positions, read_successfuly, frame, cropped_frame, idx,
          nread, events, result, scene, input, thr, out, dpc>>

trackVars == <<thresholds, roi, pixel_coords, clients, camera, frame_size, pc,
               trajectories, positions, read_successfuly, frame, cropped_frame,
               idx, nread, events, result>>

detectVars == <<scene, input, thr, out, dpc>>

config == <<thresholds, roi, pixel_coords, clients, frame_size>>

\* ------------------------------------------------------------------ bounds
\* width and height of the planes of SpecDetect (every plane over Levels)
GridW == 3
GridH == 3
\* width and height of the rectangle scenes and of the camera's frames
SceneW == 5
SceneH == 4
\* frames the camera delivers before its reads can only fail
MaxFrames == 2

\* --------------------------------------------------------------- constants
MAX_VAL == 255
\* 1e-6 is 1 / EpsDen
EpsDen == 1000000

\* Python's None, where a position is expected
None == "None"
\* None where a roi or a returned dict is expected, and where an image is
NoValue == <<>>
NoImage == [w |-> 0, h |-> 0, v |-> <<>>]
Sentinel == <<-1, -1>>

Max(a, b) == IF a >= b THEN a ELSE b
Min(a, b) == IF a <= b THEN a ELSE b

Pix(w, h) == (0 .. w - 1) \X (0 .. h - 1)

RECURSIVE Sum(_, _)
Sum(f, S) ==
    IF S = {} THEN 0
    ELSE LET e == CHOOSE e \in S : TRUE IN f[e] + Sum(f, S \ {e})

\* ---------------------------------------------------------------- detector
\* cv2.threshold(frame, threshold, MAX_VAL, THRESH_BINARY): a pixel becomes
\* MAX_VAL when its value is strictly greater than the threshold, else 0.
ThresholdGE(plane, threshold) ==
    [plane EXCEPT !.v = [p \in DOMAIN plane.v |->
                            IF plane.v[p] >= threshold THEN MAX_VAL ELSE 0]]

Threshold(plane, threshold) ==
    [plane EXCEPT !.v = [p \in DOMAIN plane.v |->
                            IF plane.v[p] > threshold THEN MAX_VAL ELSE 0]]

Adj8(p, q) ==
    /\ p # q
    /\ p[1] - q[1] \in {-1, 0, 1}
    /\ p[2] - q[2] \in {-1, 0, 1}

Adj4(p, q) ==
    \/ p[1] = q[1] /\ p[2] - q[2] \in {-1, 1}
    \/ p[2] = q[2] /\ p[1] - q[1] \in {-1, 1}

\* the 8-connected component of the seed set S within mask
RECURSIVE Grow8(_, _)
Grow8(S, mask) ==
    LET N == {q \in mask \ S : \E p \in S : Adj8(p, q)}
    IN  IF N = {} THEN S ELSE Grow8(S \cup N, mask)

\* the pixels of free reached from S over 4-connected steps
RECURSIVE Grow4(_, _)
Grow4(S, free) ==
    LET N == {q \in free \ S : \E p \in S : Adj4(p, q)}
    IN  IF N = {} THEN S ELSE Grow4(S \cup N, free)

\* The region the outer border of component C bounds: C and all it encloses
\* (what the background outside the image cannot reach around C).
Filled(C, w, h) ==
    LET ext  == (-1 .. w) \X (-1 .. h)
        ring == ext \ Pix(w, h)
    IN  Pix(w, h) \ Grow4(ring, ext \ C)

\* raster position of the pixel the scan meets first (top row, leftmost)
Start(C, w) ==
    CHOOSE n \in {p[2] * w + p[1] : p \in C} :
        \A p \in C : n <= p[2] * w + p[1]

\* sequence of the sets in S, latest raster start first
RECURSIVE LatestFirst(_, _)
LatestFirst(S, w) ==
    IF S = {} THEN <<>>
    ELSE LET c == CHOOSE c \in S : \A d \in S : Start(d, w) <= Start(c, w)
         IN  <<c>> \o LatestFirst(S \ {c}, w)

\* cv2.findContours(thresholded, RETR_TREE, CHAIN_APPROX_SIMPLE): one outer
\* border per 8-connected component of nonzero pixels, traced through the
\* centres of its border pixels.  A contour is represented by the pixel set
\* its polygon passes around (Filled).  Top-level contours come out in the
\* reverse of the raster order in which the scan meets them.  The borders of
\* holes, and of components nested in holes, follow the outer border that
\* encloses them and bound a part of its region, so the first maximum of the
\* areas is never one of them; they are left out of the list.
FindContours(thresholded) ==
    LET w    == thresholded.w
        h    == thresholded.h
        mask == {p \in DOMAIN thresholded.v : thresholded.v[p] # 0}
        comps == {Grow8({p}, mask) : p \in mask}
    IN  LatestFirst({Filled(C, w, h) : C \in comps}, w)

\* The unit cells between pixel centres, with the corners a contour covers.
Cells(contour) ==
    {<<p[1] + dx, p[2] + dy>> : p \in contour, dx \in {-1, 0}, dy \in {-1, 0}}

Corners(c) == {<<c[1], c[2]>>, <<c[1] + 1, c[2]>>, <<c[1], c[2] + 1>>, <<c[1] + 1, c[2] + 1>>}

\* Twice the polygon area of a contour (Green's formula over the traced
\* border): a cell with four covered corners counts 1, a cell with three
\* covered corners is cut along its diagonal and counts 1/2.
Area2(contour) ==
    LET cs == Cells(contour)
        f  == [c \in cs |->
                 LET k == Cardinality(Corners(c) \cap contour)
                 IN  IF k = 4 THEN 2 ELSE IF k = 3 THEN 1 ELSE 0]
    IN  Sum(f, cs)

\* Six times the first moment of the polygon along axis a (1: x, 2: y).
Moment6(contour, a) ==
    LET cs == Cells(contour)
        f  == [c \in cs |->
                 LET in == Corners(c) \cap contour
                     k  == Cardinality(in)
                 IN  IF k = 4 THEN 6 * c[a] + 3
                     ELSE IF k = 3 THEN Sum([p \in in |-> p[a]], in)
                     ELSE 0]
    IN  Sum(f, cs)

\* cv2.contourArea, doubled to stay in the integers
ContourArea2(contour) == Area2(contour)

\* cv2.moments(contour): m00 = M00x2 / 2, m10 = M10x6 / 6, m01 = M01x6 / 6.
\* A polygon of no area has all its moments 0.
Moments(contour) ==
    [m00x2 |-> Area2(contour),
     m10x6 |-> Moment6(contour, 1),
     m01x6 |-> Moment6(contour, 2)]

\* int(m / (m00 + 1e-6)) with m = m6 / 6 and m00 = m00x2 / 2; the operands
\* are not negative, so int() is the floor.
DivEps(m6, m00x2) == (m6 * EpsDen) \div (3 * m00x2 * EpsDen + 6)

ComputeCenter(contour) ==
    LET m == Moments(contour)
    IN  <<DivEps(m.m10x6, m.m00x2), DivEps(m.m01x6, m.m00x2)>>

\* np.argmax: the first index holding the greatest value
ArgMax(areas) ==
    CHOOSE i \in 1 .. Len(areas) :
        /\ \A j \in 1 .. Len(areas) : areas[j] <= areas[i]
        /\ \A j \in 1 .. i - 1 : areas[j] < areas[i]

DetectLED(plane, threshold) ==
    LET thresholded == Threshold(plane, threshold)
        contours    == FindContours(thresholded)
    IN  IF contours = <<>> THEN Sentinel
        ELSE LET largest_contour_idx ==
                     ArgMax([i \in 1 .. Len(contours) |-> ContourArea2(contours[i])])
             IN  ComputeCenter(contours[largest_contour_idx])

\* ------------------------------------------------- the detector on its own
Levels == {100, 255}
Thresholds == {0, 100, 255}

IdleTrack ==
    /\ thresholds = <<>> /\ roi = NoValue /\ pixel_coords = FALSE /\ clients = {}
    /\ camera = "closed" /\ frame_size = <<0, 0>> /\ pc = "Off"
    /\ trajectories = <<>> /\ positions = <<>> /\ read_successfuly = FALSE
    /\ frame = NoImage /\ cropped_frame = NoImage /\ idx = 0 /\ nread = 0
    /\ events = <<>> /\ result = NoValue

\* every plane of GridW x GridH pixels over Levels, every threshold
InitDetect ==
    /\ IdleTrack
    /\ scene = <<>>
    /\ input \in [w : {GridW}, h : {GridH}, v : [Pix(GridW, GridH) -> Levels]]
    /\ thr \in Thresholds
    /\ out = NoValue
    /\ dpc = "call"

Inside(p, r) == r.x0 <= p[1] /\ p[1] <= r.x1 /\ r.y0 <= p[2] /\ p[2] <= r.y1

Rects(w, h) ==
    {r \in [x0 : 0 .. w - 1, x1 : 0 .. w - 1, y0 : 0 .. h - 1, y1 : 0 .. h - 1] :
        r.x0 <= r.x1 /\ r.y0 <= r.y1}

\* no pixel of one rectangle is a pixel or an 8-neighbour of the other's
Apart(r, s) ==
    \/ r.x1 + 1 < s.x0 \/ s.x1 + 1 < r.x0
    \/ r.y1 + 1 < s.y0 \/ s.y1 + 1 < r.y0

\* the plane with the rectangles of rs at MAX_VAL on a background of 0
Paint(w, h, rs) ==
    [w |-> w, h |-> h,
     v |-> [p \in Pix(w, h) |->
              IF \E k \in 1 .. Len(rs) : Inside(p, rs[k]) THEN MAX_VAL ELSE 0]]

\* planes of SceneW x SceneH pixels with one bright rectangle, or two apart
InitScene ==
    /\ IdleTrack
    /\ scene \in {<<r>> : r \in Rects(SceneW, SceneH)}
               \cup {q \in Rects(SceneW, SceneH) \X Rects(SceneW, SceneH) :
                        Apart(q[1], q[2])}
    /\ input = Paint(SceneW, SceneH, scene)
    /\ thr \in {128, 228}
    /\ out = NoValue
    /\ dpc = "call"

\* one call of LEDTracker.__detect_LED
Detect ==
    /\ dpc = "call"
    /\ out' = DetectLED(input, thr)
    /\ dpc' = "done"
    /\ UNCHANGED <<scene, input, thr>>
    /\ UNCHANGED trackVars

NextDetect == Detect

SpecDetect == InitDetect /\ [][NextDetect]_vars

SpecScene == InitScene /\ [][NextDetect]_vars

\* ---------------------------------------------------------------- the dicts
\* A Python dict is the sequence of its items [k, v] in insertion order.
Keys(d) == [n \in 1 .. Len(d) |-> d[n].k]

Has(d, k) == \E n \in 1 .. Len(d) : d[n].k = k

Get(d, k) == d[CHOOSE n \in 1 .. Len(d) : d[n].k = k].v

Put(d, k, v) ==
    IF Has(d, k)
    THEN [n \in 1 .. Len(d) |-> IF d[n].k = k THEN [k |-> k, v |-> v] ELSE d[n]]
    ELSE Append(d, [k |-> k, v |-> v])

RECURSIVE Dict(_)
Dict(items) ==
    IF items = <<>> THEN <<>>
    ELSE LET n == Len(items)
         IN  Put(Dict(SubSeq(items, 1, n - 1)), items[n].k, items[n].v)

\* ------------------------------------------------------------ the cropper
\* a bound of a Python slice over n elements
SliceBound(a, n) == IF a < 0 THEN Max(a + n, 0) ELSE Min(a, n)

\* frame[roi[0]:roi[2], roi[1]:roi[3], :] if roi is not None else frame
CropFrame(img, r) ==
    IF r = NoValue THEN img
    ELSE LET top    == SliceBound(r[1], img.h)
             left   == SliceBound(r[2], img.w)
             bottom == SliceBound(r[3], img.h)
             right  == SliceBound(r[4], img.w)
             w      == Max(right - left, 0)
             h      == Max(bottom - top, 0)
         IN  [w |-> w, h |-> h,
              v |-> [p \in Pix(w, h) |-> img.v[<<p[1] + left, p[2] + top>>]]]

\* cv2.split gives the planes in the order b, g, r; color_planes names them
ColorPlanes(img) ==
    LET split == [n \in 1 .. 3 |->
                    [w |-> img.w, h |-> img.h,
                     v |-> [p \in DOMAIN img.v |-> img.v[p][n]]]]
    IN  <<[k |-> "r", v |-> split[3]],
          [k |-> "g", v |-> split[2]],
          [k |-> "b", v |-> split[1]]>>

\* -------------------------------------------------------- the message sender
\* float(n) and a / b, as fractions
Float(n) == <<n, 1>>
Div(a, b) == <<a, b>>

PrepareMessageScaleAll(pos, size, pixel) ==
    LET p == IF pixel
             THEN <<Float(pos[1]), Float(pos[2])>>
             ELSE <<Div(pos[1], size[1]), Div(pos[2], size[2])>>
    IN  <<p[1], p[2], size[1], size[2]>>

\* MessageSender.__prepare_message
PrepareMessage(pos, size, pixel) ==
    LET p == IF pixel \/ pos = Sentinel
             THEN <<Float(pos[1]), Float(pos[2])>>
             ELSE <<Div(pos[1], size[1]), Div(pos[2], size[2])>>
    IN  <<p[1], p[2], size[1], size[2]>>

SendEvent(c, pos, size, pixel) ==
    [op |-> "send", c |-> c, address |-> <<"/", c>>, position |-> pos,
     msg |-> PrepareMessage(pos, size, pixel)]

\* the messages of one MessageSender.send_message call, in order: one per
\* item of the dict, up to the first channel that has no client (KeyError)
RECURSIVE SendAll(_, _, _, _)
SendAll(d, size, pixel, cl) ==
    IF d = <<>> \/ d[1].k \notin cl THEN <<>>
    ELSE <<SendEvent(d[1].k, d[1].v, size, pixel)>> \o SendAll(Tail(d), size, pixel, cl)

Reverse(q) == [n \in 1 .. Len(q) |-> q[Len(q) + 1 - n]]

SendAllReversed(d, size, pixel, cl) == SendAll(Reverse(d), size, pixel, cl)

SendMessages(d, size, pixel, cl) == SendAll(d, size, pixel, cl)

\* ------------------------------------------------------------- the session
Channels == {"r", "g", "b"}

\* the thresholds dicts a tracker is built with
ThresholdConfigs ==
    { Dict(<<[k |-> "r", v |-> 128], [k |-> "g", v |-> 128], [k |-> "b", v |-> 128]>>),
      Dict(<<[k |-> "r", v |-> 228], [k |-> "b", v |-> 228], [k |-> "b", v |-> 228]>>),
      Dict(<<[k |-> "g", v |-> 300], [k |-> "r", v |-> 128]>>),
      Dict(<<[k |-> "r", v |-> 128], [k |-> "x", v |-> 128]>>) }

\* the regions of interest: none, one inside the frame, one reaching out of
\* it, one with its bottom above its top
RoiConfigs ==
    { NoValue,
      <<1, 1, 3, 4>>,
      <<1, 2, SceneH + 2, SceneW + 2>>,
      <<2, 2, 1, 1>> }

\* the keys of the ports dicts a sender is built with
ClientConfigs == { {"r", "g", "b"}, {"r", "b"} }

\* a BGR frame of the camera: the pixels of red, green and blue at full
\* value in their channel, the green ones of dim at 200, the rest black
FrameOf(red, green, blue, dim) ==
    [w |-> SceneW, h |-> SceneH,
     v |-> [p \in Pix(SceneW, SceneH) |->
              <<IF p \in blue THEN MAX_VAL ELSE 0,
                IF p \in green THEN MAX_VAL ELSE IF p \in dim THEN 200 ELSE 0,
                IF p \in red THEN MAX_VAL ELSE 0>>]]

Block(x0, x1, y0, y1) == (x0 .. x1) \X (y0 .. y1)

\* the frames the camera can deliver
Frames ==
    { FrameOf({}, {}, {}, {}),
      FrameOf(Block(1, 3, 1, 2), {}, Block(0, 0, 0, 0), Block(SceneW - 1, SceneW - 1, 0, 1)),
      FrameOf(Block(2, 3, 2, 3), Block(0, 1, 0, 1), Block(0, SceneW - 1, SceneH - 1, SceneH - 1), {}) }

\* LEDTracker.__init__ and MessageSender.__init__ have run
Init ==
    /\ thresholds \in ThresholdConfigs
    /\ roi \in RoiConfigs
    /\ pixel_coords \in BOOLEAN
    /\ clients \in ClientConfigs
    /\ camera \in {"opened", "closed"}
    /\ frame_size = IF camera = "opened" THEN <<SceneW, SceneH>> ELSE <<0, 0>>
    /\ pc = "Idle"
    /\ trajectories = <<>>
    /\ positions = <<>>
    /\ read_successfuly = FALSE
    /\ frame = NoImage
    /\ cropped_frame = NoImage
    /\ idx = 0
    /\ nread = 0
    /\ events = <<>>
    /\ result = NoValue
    /\ scene = <<>> /\ input = NoImage /\ thr = 0 /\ out = NoValue /\ dpc = "Off"

\* trajectories[c].append(position)
AccumulateTwice(trajs, c, pos) == Put(trajs, c, Get(trajs, c) \o <<pos, pos>>)

Accumulate(trajs, c, pos) == Put(trajs, c, Append(Get(trajs, c), pos))

\* track is called: the two dicts get a key per threshold
Track ==
    /\ pc = "Idle"
    /\ trajectories' = [n \in 1 .. Len(thresholds) |-> [k |-> thresholds[n].k, v |-> <<>>]]
    /\ positions' = [n \in 1 .. Len(thresholds) |-> [k |-> thresholds[n].k, v |-> None]]
    /\ pc' = "while"
    /\ UNCHANGED <<config, camera, read_successfuly, frame, cropped_frame, idx,
                   nread, events, result>>
    /\ UNCHANGED detectVars

\* while self.__camera.isOpened(): the camera is not open, the loop ends
LoopExit ==
    /\ pc = "while"
    /\ camera # "opened"
    /\ pc' = "return"
    /\ UNCHANGED <<config, camera, trajectories, positions, read_successfuly,
                   frame, cropped_frame, idx, nread, events, result>>
    /\ UNCHANGED detectVars

\* self.__camera.read() returns a frame
ReadFrame ==
    /\ pc = "while"
    /\ camera = "opened"
    /\ nread < MaxFrames
    /\ \E f \in Frames : frame' = f
    /\ read_successfuly' = TRUE
    /\ nread' = nread + 1
    /\ events' = <<>>
    /\ pc' = "check"
    /\ UNCHANGED <<config, camera, trajectories, positions, cropped_frame, idx, result>>
    /\ UNCHANGED detectVars

\* self.__camera.read() reports that there is no frame
ReadFail ==
    /\ pc = "while"
    /\ camera = "opened"
    /\ frame' = NoImage
    /\ read_successfuly' = FALSE
    /\ events' = <<>>
    /\ pc' = "check"
    /\ UNCHANGED <<config, camera, trajectories, positions, cropped_frame, idx,
                   nread, result>>
    /\ UNCHANGED detectVars

BreakContinues ==
    /\ pc = "check"
    /\ read_successfuly = FALSE
    /\ pc' = "while"
    /\ UNCHANGED <<config, camera, trajectories, positions, read_successfuly,
                   frame, cropped_frame, idx, nread, events, result>>
    /\ UNCHANGED detectVars

\* if not read_successfuly: break
Break ==
    /\ pc = "check"
    /\ read_successfuly = FALSE
    /\ pc' = "return"
    /\ UNCHANGED <<config, camera, trajectories, positions, read_successfuly,
                   frame, cropped_frame, idx, nread, events, result>>
    /\ UNCHANGED detectVars

\* the frame is cropped and split; splitting a frame without pixels raises
Crop ==
    /\ pc = "check"
    /\ read_successfuly = TRUE
    /\ cropped_frame' = CropFrame(frame, roi)
    /\ IF cropped_frame'.w = 0 \/ cropped_frame'.h = 0
       THEN pc' = "raised" /\ idx' = idx
       ELSE pc' = "detect" /\ idx' = 1
    /\ UNCHANGED <<config, camera, trajectories, positions, read_successfuly,
                   frame, nread, events, result>>
    /\ UNCHANGED detectVars

\* one turn of the loop over the thresholds: the channel's plane is looked
\* up (KeyError for a channel that has none), its LED detected and recorded
DetectChannel ==
    /\ pc = "detect"
    /\ LET c == thresholds[idx].k
           t == thresholds[idx].v
       IN  IF ~Has(ColorPlanes(cropped_frame), c)
           THEN /\ pc' = "raised"
                /\ UNCHANGED <<trajectories, positions, idx, events>>
           ELSE LET pos == DetectLED(Get(ColorPlanes(cropped_frame), c), t)
                IN  /\ trajectories' = Accumulate(trajectories, c, pos)
                    /\ positions' = Put(positions, c, pos)
                    /\ events' = Append(events, [op |-> "append", c |-> c,
                                                  address |-> <<>>, position |-> pos,
                                                  msg |-> <<>>])
                    /\ idx' = idx + 1
                    /\ pc' = IF idx = Len(thresholds) THEN "send" ELSE "detect"
    /\ UNCHANGED <<config, camera, read_successfuly, frame, cropped_frame, nread, result>>
    /\ UNCHANGED detectVars

\* send_message(positions, self.__frame_size): MessageSender.send_message
SendMessage ==
    /\ pc = "send"
    /\ LET sent == SendMessages(positions, frame_size, pixel_coords, clients)
       IN  /\ events' = events \o sent
           /\ pc' = IF Len(sent) = Len(positions) THEN "show" ELSE "raised"
    /\ UNCHANGED <<config, camera, trajectories, positions, read_successfuly,
                   frame, cropped_frame, idx, nread, result>>
    /\ UNCHANGED detectVars

\* cv2.imshow, then cv2.waitKey(0) returns once a key is pressed
WaitKey ==
    /\ pc = "show"
    /\ pc' = "while"
    /\ UNCHANGED <<config, camera, trajectories, positions, read_successfuly,
                   frame, cropped_frame, idx, nread, events, result>>
    /\ UNCHANGED detectVars

\* return trajectories
Return ==
    /\ pc = "return"
    /\ result' = trajectories
    /\ pc' = "Stopped"
    /\ UNCHANGED <<config, camera, trajectories, positions, read_successfuly,
                   frame, cropped_frame, idx, nread, events>>
    /\ UNCHANGED detectVars

\* LEDTracker.__del__, whenever the tracker is collected after track ended
Del ==
    /\ pc \in {"Stopped", "raised"}
    /\ camera # "released"
    /\ camera' = "released"
    /\ UNCHANGED <<config, pc, trajectories, positions, read_successfuly,
                   frame, cropped_frame, idx, nread, events, result>>
    /\ UNCHANGED detectVars

Next ==
    \/ Track
    \/ LoopExit
    \/ ReadFrame
    \/ ReadFail
    \/ Break
    \/ Crop
    \/ DetectChannel
    \/ SendMessage
    \/ WaitKey
    \/ Return
    \/ Del

Spec == Init /\ [][Next]_vars

\* track runs its statements one after the other: after a failed read the
\* break and then the return are executed.  A key press (WaitKey) and the
\* collection of the tracker (Del) are up to the environment.
FairSpec == Init /\ [][Next]_vars /\ WF_vars(Break) /\ WF_vars(Return)

\* ------------------------------------------------------------------ claims
Tracked == 1 .. Len(trajectories)

SendsOf(es) == {k \in 1 .. Len(es) : es[k].op = "send"}

\* C1: between the turns of the frame loop and in the value track returns,
\* the trajectory of every tracked channel is as long as the number of reads
\* that returned a frame; a read that fails appends nothing; inside a turn
\* the channels already visited hold the frame's entry, the others not yet.
C1_TrajectoryLength ==
    /\ pc # "Idle" => Keys(trajectories) = Keys(thresholds)
    /\ pc \in {"while", "return", "Stopped", "send", "show"}
         => \A n \in Tracked : Len(trajectories[n].v) = nread
    /\ (pc = "check" /\ ~read_successfuly)
         => \A n \in Tracked : Len(trajectories[n].v) = nread
    /\ (pc = "check" /\ read_successfuly)
         => \A n \in Tracked : Len(trajectories[n].v) = nread - 1
    /\ pc = "detect"
         => \A n \in Tracked :
               Len(trajectories[n].v) = IF n < idx THEN nread ELSE nread - 1
    /\ pc = "Stopped"
         => /\ Keys(result) = Keys(thresholds)
            /\ \A n \in 1 .. Len(result) : Len(result[n].v) = nread

C1_Witness ==
    /\ pc = "Stopped"
    /\ nread >= 2
    /\ Len(result) >= 2
    /\ \A n \in 1 .. Len(result) : Len(result[n].v) = nread

\* C2: within a frame the events are, in this order, one append per tracked
\* channel in the order of the thresholds dict and then one send per channel
\* in that same order; a send carries the position appended for its channel
\* in this frame, which is the last entry of the channel's trajectory; when
\* the turn reaches the display every channel was appended and sent once.
C2_AppendsThenSends ==
    LET n == Len(thresholds)
    IN  /\ Len(events) <= 2 * n
        /\ \A k \in 1 .. Len(events) :
              IF k <= n
              THEN /\ events[k].op = "append"
                   /\ events[k].c = thresholds[k].k
                   /\ Len(trajectories[k].v) = nread
                   /\ events[k].position = trajectories[k].v[nread]
              ELSE /\ events[k].op = "send"
                   /\ events[k].c = thresholds[k - n].k
                   /\ events[k].position = events[k - n].position
                   /\ events[k].position = Get(positions, events[k].c)
        /\ pc = "detect" => Len(events) = idx - 1
        /\ pc = "send" => Len(events) = n
        /\ pc = "show" => Len(events) = 2 * n

C2_Witness ==
    /\ pc = "show"
    /\ nread = 2
    /\ Len(thresholds) = 3
    /\ Len(events) = 6
    /\ events[4].position # events[5].position

\* C3: once a read has failed nothing is appended, detected or dispatched any
\* more and no frame is read; track returns the trajectories as they were at
\* the failure, one entry per frame read before it; the stopped session
\* stays stopped; and a failed read leads to the stopped session.
ReadFailed == pc \in {"check", "return", "Stopped"} /\ ~read_successfuly

C3_StopsOnFailedRead ==
    /\ [](ReadFailed => /\ events = <<>>
                         /\ \A n \in Tracked : Len(trajectories[n].v) = nread)
    /\ [](pc = "Stopped" => result = trajectories)
    /\ [][ReadFailed => /\ ReadFailed'
                         /\ pc' # "check"
                         /\ UNCHANGED <<trajectories, positions, events, nread,
                                        frame, cropped_frame, idx>>]_vars
    /\ [][pc = "Stopped" => pc' = "Stopped" /\ result' = result]_vars
    /\ ((pc = "check" /\ ~read_successfuly) ~> (pc = "Stopped"))

C3_Witness ==
    /\ pc = "Stopped"
    /\ camera = "opened"
    /\ ~read_successfuly
    /\ nread >= 1
    /\ \A n \in 1 .. Len(result) : Len(result[n].v) = nread

\* C4: the detector returns the sentinel exactly when no pixel of the plane
\* is strictly above the threshold; any other result has x >= 0 and y >= 0.
C4_SentinelIffNothingAbove ==
    dpc = "done" =>
        /\ (out = Sentinel) <=> ~(\E p \in DOMAIN input.v : input.v[p] > thr)
        /\ out # Sentinel => out[1] >= 0 /\ out[2] >= 0

\* a single pixel above the threshold, away from the origin
C4_Witness ==
    /\ dpc = "done"
    /\ {p \in DOMAIN input.v : input.v[p] > thr} = {<<1, 1>>}
    /\ \E p \in DOMAIN input.v : input.v[p] = thr
    /\ out # Sentinel

InUnit(f) == f[2] > 0 /\ 0 <= f[1] /\ f[1] <= f[2]

\* C5: a message carries the position as floats unchanged in pixel mode and
\* for the sentinel, which is (-1.0, -1.0) in either mode; otherwise it
\* carries x / width and y / height, both within [0, 1].
C5_PreparedPosition ==
    \A k \in SendsOf(events) :
        LET p == events[k].position
            m == events[k].msg
        IN  /\ Len(m) = 4
            /\ p = Sentinel => m[1] = <<-1, 1>> /\ m[2] = <<-1, 1>>
            /\ pixel_coords => m[1] = <<p[1], 1>> /\ m[2] = <<p[2], 1>>
            /\ (~pixel_coords /\ p # Sentinel)
                 => /\ m[1] = <<p[1], frame_size[1]>>
                    /\ m[2] = <<p[2], frame_size[2]>>
                    /\ InUnit(m[1]) /\ InUnit(m[2])

C5_Witness ==
    /\ ~pixel_coords
    /\ \E k \in SendsOf(events) : events[k].position = Sentinel
    /\ \E k \in SendsOf(events) :
          /\ events[k].position # Sentinel
          /\ events[k].position[1] > 0
          /\ events[k].msg[1] = <<events[k].position[1], SceneW>>

\* C6: for a plane with one bright rectangle of columns x0..x1 and rows
\* y0..y1 the detector returns (floor((x0+x1)/2), floor((y0+y1)/2)).
C6_RectangleCenter ==
    (dpc = "done" /\ Len(scene) = 1) =>
        out = <<(scene[1].x0 + scene[1].x1) \div 2, (scene[1].y0 + scene[1].y1) \div 2>>

PixelArea(r) == (r.x1 - r.x0 + 1) * (r.y1 - r.y0 + 1)

PixelsOf(r) == (r.x0 .. r.x1) \X (r.y0 .. r.y1)

\* C7: for a plane with two bright rectangles apart of pixel areas A1 > A2
\* the detector returns the centre of the A1 rectangle, as computed from the
\* border of that rectangle.
C7_LargestPixelAreaWins ==
    (dpc = "done" /\ Len(scene) = 2 /\ PixelArea(scene[1]) > PixelArea(scene[2])) =>
        out = ComputeCenter(PixelsOf(scene[1]))

ValidRoi ==
    \/ roi = NoValue
    \/ /\ 0 <= roi[1] /\ roi[1] < roi[3] /\ roi[3] <= SceneH
       /\ 0 <= roi[2] /\ roi[2] < roi[4] /\ roi[4] <= SceneW

ValidConfig ==
    /\ ValidRoi
    /\ \A n \in 1 .. Len(thresholds) :
          thresholds[n].v \in 0 .. 255 /\ thresholds[n].k \in Channels

\* C8: under an invalid configuration (ROI out of the frame, threshold out of
\* 0..255, unknown channel) no frame is cropped, detected, appended or sent.
C8_NothingProcessedWhenInvalid ==
    ~ValidConfig =>
        /\ pc \notin {"detect", "send", "show"}
        /\ events = <<>>
        /\ \A n \in Tracked : trajectories[n].v = <<>>

\* C9: when track has ended, by return or by an error, the camera is no
\* longer held open.
C9_CameraReleasedAtExit == pc \in {"Stopped", "raised"} => camera # "opened"

\* C10: the frame size of every message is the width and height of the frame
\* the detector worked on, the cropped frame.
C10_FrameSizeOfCroppedFrame ==
    \A k \in SendsOf(events) :
        <<events[k].msg[3], events[k].msg[4]>> = <<cropped_frame.w, cropped_frame.h>>

====
